---- MODULE Spec2Model ----
(***************************************************************************)
(* A model of src/imgproc/convert.h (nvimgcodec): the type range registry, *)
(* the saturating cast clamp<To>, the rounding primitives and the four     *)
(* conversion entry points Convert, ConvertNorm, ConvertSat and            *)
(* ConvertSatNorm.                                                         *)
(*                                                                         *)
(* The operands of the header are 8 to 64 bit integers and binary32 /      *)
(* binary64 floating-point numbers.  They are kept exact: an integer is a  *)
(* sign and a magnitude, the magnitude a little-endian sequence of digits  *)
(* in base 2^15; a floating-point number is a sign, an odd magnitude and a *)
(* binary exponent, or an infinity.  Every arithmetic step of the header   *)
(* is then done the way the C++ abstract machine does it: integer          *)
(* conversions wrap modulo 2^width, floating-point operations round to     *)
(* nearest-even at 24 or 53 bits.                                          *)
(***************************************************************************)
EXTENDS Integers, Sequences, FiniteSets, TLC

(***************************************************************************)
(* Natural numbers of any size: digit sequences, least significant first,  *)
(* no leading zero digit (zero is the empty sequence).                     *)
(***************************************************************************)
DigitBits == 5 * 3
Base == 2 ^ DigitBits

RECURSIVE NNorm(_)
NNorm(s) ==
  IF s = <<>> THEN s
  ELSE IF s[Len(s)] = 0 THEN NNorm(SubSeq(s, 1, Len(s) - 1)) ELSE s

RECURSIVE NFromInt(_)
NFromInt(n) == IF n = 0 THEN <<>> ELSE <<n % Base>> \o NFromInt(n \div Base)

NZero == <<>>
NOne == <<1>>

RECURSIVE NCmpFrom(_, _, _)
NCmpFrom(a, b, i) ==
  IF i = 0 THEN 0
  ELSE IF a[i] < b[i] THEN -1
  ELSE IF a[i] > b[i] THEN 1
  ELSE NCmpFrom(a, b, i - 1)

\* -1, 0 or 1 as a < b, a = b, a > b
NCmp(a, b) ==
  IF Len(a) < Len(b) THEN -1
  ELSE IF Len(a) > Len(b) THEN 1
  ELSE NCmpFrom(a, b, Len(a))

RECURSIVE NAddC(_, _, _)
NAddC(a, b, c) ==
  IF a = <<>> /\ b = <<>> THEN (IF c = 0 THEN <<>> ELSE <<c>>)
  ELSE LET x == IF a = <<>> THEN 0 ELSE Head(a)
           y == IF b = <<>> THEN 0 ELSE Head(b)
           s == x + y + c
       IN  <<s % Base>> \o NAddC(IF a = <<>> THEN a ELSE Tail(a),
                                 IF b = <<>> THEN b ELSE Tail(b), s \div Base)

NAdd(a, b) == NAddC(a, b, 0)

RECURSIVE NSubB(_, _, _)
NSubB(a, b, c) ==
  IF a = <<>> THEN <<>>
  ELSE LET y == IF b = <<>> THEN 0 ELSE Head(b)
           d == Head(a) - y - c
       IN  <<d % Base>> \o NSubB(Tail(a), IF b = <<>> THEN b ELSE Tail(b),
                                 IF d < 0 THEN 1 ELSE 0)

\* a - b for a >= b
NSub(a, b) == NNorm(NSubB(a, b, 0))

RECURSIVE NMulSmall(_, _, _)
NMulSmall(a, m, c) ==
  IF a = <<>> THEN (IF c = 0 THEN <<>> ELSE <<c>>)
  ELSE LET s == Head(a) * m + c
       IN  <<s % Base>> \o NMulSmall(Tail(a), m, s \div Base)

NShiftDigits(a, q) == IF a = <<>> THEN a ELSE [i \in 1..q |-> 0] \o a

RECURSIVE NMul(_, _)
NMul(a, b) ==
  IF a = <<>> \/ b = <<>> THEN <<>>
  ELSE NAdd(NMulSmall(a, Head(b), 0), NShiftDigits(NMul(a, Tail(b)), 1))

\* a * 2^k
NShl(a, k) ==
  NShiftDigits(NNorm(NMulSmall(a, 2 ^ (k % DigitBits), 0)), k \div DigitBits)

\* the quotient of a by the small number d, digits taken from the top; r is the
\* remainder carried down
RECURSIVE NDivSmallFrom(_, _, _, _)
NDivSmallFrom(a, d, i, r) ==
  IF i = 0 THEN <<>>
  ELSE LET x == r * Base + a[i]
       IN  NDivSmallFrom(a, d, i - 1, x % d) \o <<x \div d>>

\* floor(a / 2^k)
NShr(a, k) ==
  LET q == k \div DigitBits
      t == IF q >= Len(a) THEN <<>> ELSE SubSeq(a, q + 1, Len(a))
  IN  NNorm(NDivSmallFrom(t, 2 ^ (k % DigitBits), Len(t), 0))

\* a mod 2^k: the digits below bit k
NMod2(a, k) ==
  LET q == k \div DigitBits
      n == IF Len(a) <= q THEN Len(a) ELSE q + 1
  IN  NNorm([i \in 1..n |-> IF i = q + 1 THEN a[i] % (2 ^ (k % DigitBits)) ELSE a[i]])

RECURSIVE BitLenSmall(_)
BitLenSmall(n) == IF n = 0 THEN 0 ELSE 1 + BitLenSmall(n \div 2)

\* the number of significant bits of a
NBitLen(a) ==
  IF a = <<>> THEN 0 ELSE (Len(a) - 1) * DigitBits + BitLenSmall(a[Len(a)])

\* 2^k
NPow2(k) ==
  [i \in 1..(k \div DigitBits + 1) |->
     IF i = k \div DigitBits + 1 THEN 2 ^ (k % DigitBits) ELSE 0]

\* 2^k - 1
NOnes(k) ==
  NNorm([i \in 1..(k \div DigitBits + 1) |->
           IF i = k \div DigitBits + 1 THEN 2 ^ (k % DigitBits) - 1 ELSE Base - 1])

NIsOdd(a) == a # <<>> /\ Head(a) % 2 = 1

RECURSIVE TrailingZerosSmall(_)
TrailingZerosSmall(n) == IF n % 2 = 1 THEN 0 ELSE 1 + TrailingZerosSmall(n \div 2)

\* the number of trailing zero bits of a # 0: whole zero digits first
RECURSIVE NTrailingZeros(_)
NTrailingZeros(a) ==
  IF Head(a) = 0 THEN DigitBits + NTrailingZeros(Tail(a))
  ELSE TrailingZerosSmall(Head(a))

\* the largest q in lo..hi with d * q <= r, by bisection
RECURSIVE NDivDigit(_, _, _, _)
NDivDigit(r, d, lo, hi) ==
  IF lo = hi THEN lo
  ELSE LET mid == (lo + hi + 1) \div 2
       IN  IF NCmp(NMulSmall(d, mid, 0), r) <= 0 THEN NDivDigit(r, d, mid, hi)
           ELSE NDivDigit(r, d, lo, mid - 1)

\* long division, one digit of a at a time from the top; r is the remainder so far
RECURSIVE NDivModFrom(_, _, _, _)
NDivModFrom(a, d, i, r) ==
  IF i = 0 THEN <<NZero, r>>
  ELSE LET r1 == NNorm(<<a[i]>> \o r)
           q == NDivDigit(r1, d, 0, Base - 1)
           rest == NDivModFrom(a, d, i - 1, NSub(r1, NMulSmall(d, q, 0)))
       IN  <<rest[1] \o <<q>>, rest[2]>>

\* <<quotient, remainder>> of a by d # 0
NDivMod(a, d) ==
  LET qr == NDivModFrom(a, d, Len(a), NZero) IN <<NNorm(qr[1]), qr[2]>>

(***************************************************************************)
(* Integers of any size: a sign and a magnitude; zero is never negative.   *)
(***************************************************************************)
IMake(neg, mag) == [neg |-> neg /\ mag # NZero, mag |-> mag]

\* the integer n, for a number TLC itself can hold
I(n) == IMake(n < 0, NFromInt(IF n < 0 THEN -n ELSE n))

INeg(a) == IMake(~a.neg, a.mag)

ICmp(a, b) ==
  IF a.neg /\ ~b.neg THEN -1
  ELSE IF ~a.neg /\ b.neg THEN 1
  ELSE IF a.neg THEN NCmp(b.mag, a.mag)
  ELSE NCmp(a.mag, b.mag)

ILt(a, b) == ICmp(a, b) < 0
ILe(a, b) == ICmp(a, b) <= 0

IAdd(a, b) ==
  IF a.neg = b.neg THEN IMake(a.neg, NAdd(a.mag, b.mag))
  ELSE IF NCmp(a.mag, b.mag) >= 0 THEN IMake(a.neg, NSub(a.mag, b.mag))
  ELSE IMake(b.neg, NSub(b.mag, a.mag))

ISub(a, b) == IAdd(a, INeg(b))

IPow2(k) == IMake(FALSE, NPow2(k))

\* a mod 2^k, in 0 .. 2^k - 1
IMod2(a, k) ==
  LET m == NMod2(a.mag, k)
  IN  IF a.neg /\ m # NZero THEN IMake(FALSE, NSub(NPow2(k), m))
      ELSE IMake(FALSE, m)

(***************************************************************************)
(* The scalar types and their traits (<type_traits>, LP64).                *)
(***************************************************************************)
UnsignedIntTypes == {"uint8_t", "uint16_t", "uint32_t", "uint64_t"}
SignedIntTypes == {"int8_t", "int16_t", "int32_t", "int64_t"}
IntTypes == UnsignedIntTypes \cup SignedIntTypes
FPTypes == {"float", "double"}
ArithmeticTypes == {"bool"} \cup IntTypes \cup FPTypes

\* sizeof(T), in bytes
sizeof(T) ==
  CASE T \in {"bool", "uint8_t", "int8_t"} -> 1
    [] T \in {"uint16_t", "int16_t"} -> 2
    [] T \in {"uint32_t", "int32_t", "float"} -> 4
    [] T \in {"uint64_t", "int64_t", "double"} -> 8

Bits(T) == 8 * sizeof(T)

is_floating_point(T) == T \in FPTypes
is_integral(T) == T \notin FPTypes
\* std::is_signed: T(-1) < T(0); true of the floating-point types
is_signed(T) == T \in SignedIntTypes \cup FPTypes
\* std::is_unsigned: true of bool
is_unsigned(T) == T \in UnsignedIntTypes \cup {"bool"}

\* std::make_unsigned_t<U>
make_unsigned_t(U) ==
  CASE U \in {"int8_t", "uint8_t"} -> "uint8_t"
    [] U \in {"int16_t", "uint16_t"} -> "uint16_t"
    [] U \in {"int32_t", "uint32_t"} -> "uint32_t"
    [] U \in {"int64_t", "uint64_t"} -> "uint64_t"

\* the integer i converted to the integer type T: the value modulo 2^Bits(T),
\* truthiness for bool
CastInt(T, i) ==
  IF T = "bool" THEN IMake(FALSE, IF i.mag = NZero THEN NZero ELSE NOne)
  ELSE LET m == IMod2(i, Bits(T)).mag
       IN  IF T \in SignedIntTypes /\ NBitLen(m) = Bits(T)
           THEN IMake(TRUE, NSub(NPow2(Bits(T)), m))
           ELSE IMake(FALSE, m)

\* integral promotion: a type narrower than int becomes int
Promote(T) == IF is_integral(T) /\ sizeof(T) < 4 THEN "int32_t" ELSE T

\* the usual arithmetic conversions: the type in which A op B is computed
CommonType(A, B) ==
  LET a == Promote(A)
      b == Promote(B)
  IN  IF a = "double" \/ b = "double" THEN "double"
      ELSE IF a = "float" \/ b = "float" THEN "float"
      ELSE IF a = b THEN a
      ELSE IF is_signed(a) = is_signed(b)
      THEN (IF sizeof(a) >= sizeof(b) THEN a ELSE b)
      ELSE LET u == IF is_signed(a) THEN b ELSE a
               g == IF is_signed(a) THEN a ELSE b
           IN  IF sizeof(u) >= sizeof(g) THEN u ELSE g

(***************************************************************************)
(* The operations of the header.  Every built-in operation on values and   *)
(* every function of the header that another one calls is reached through  *)
(* Call: Call(f, args) is the value of f applied to args.  The operators   *)
(* below name the calls; the operators f_body further down say what each   *)
(* one computes.                                                           *)
(***************************************************************************)
RECURSIVE Call(_, _)

static_cast(T, U, v) == Call("static_cast", <<T, U, v>>)
Compare(A, a, B, b) == Call("Compare", <<A, a, B, b>>)
FMul(T, a, b) == Call("FMul", <<T, a, b>>)
FAdd(T, a, b) == Call("FAdd", <<T, a, b>>)
FDiv(T, a, b) == Call("FDiv", <<T, a, b>>)
clamp(T, U, value) == Call("clamp", <<T, U, value>>)
std_round(T, f) == Call("std_round", <<T, f>>)
cuda_round_helper(T, f, Out) == Call("cuda_round_helper", <<T, f, Out>>)
saturatef(f) == Call("saturatef", <<f>>)
Convert(target, Out, In, value) == Call("Convert", <<target, Out, In, value>>)
ConvertSat(target, Out, In, value) == Call("ConvertSat", <<target, Out, In, value>>)
ConvertNorm(target, Out, In, value) == Call("ConvertNorm", <<target, Out, In, value>>)
ConvertSatNorm(target, Out, In, value) == Call("ConvertSatNorm", <<target, Out, In, value>>)

(***************************************************************************)
(* Floating-point numbers (IEC 559 binary32 and binary64): an infinity, or *)
(* the exact value (-1)^neg * man * 2^exp with man odd, or zero.  NaN and  *)
(* the sign of zero are left out: the header's arithmetic makes no NaN     *)
(* from finite input, and no result of it depends on the sign of a zero.   *)
(***************************************************************************)
FZero == [inf |-> FALSE, neg |-> FALSE, man |-> NZero, exp |-> 0]
FInf(neg) == [inf |-> TRUE, neg |-> neg, man |-> NZero, exp |-> 0]

\* the finite number (-1)^neg * man * 2^exp in its canonical form
FNorm(neg, man, exp) ==
  IF man = NZero THEN FZero
  ELSE LET tz == NTrailingZeros(man)
       IN  [inf |-> FALSE, neg |-> neg, man |-> NShr(man, tz), exp |-> exp + tz]

\* std::numeric_limits<T>::digits, max_exponent - 1, min_exponent - 1
Precision(T) == IF T = "float" THEN 24 ELSE 53
EMax(T) == IF T = "float" THEN 127 ELSE 1023
EMin(T) == IF T = "float" THEN -126 ELSE -1022

FIsZero(a) == ~a.inf /\ a.man = NZero
FSign(a) == IF FIsZero(a) THEN 0 ELSE IF a.neg THEN -1 ELSE 1

\* a rounded result at or above 2^(EMax + 1) is an infinity
FOverflow(T, f) ==
  IF ~f.inf /\ f.man # NZero /\ NBitLen(f.man) + f.exp > EMax(T) + 1
  THEN FInf(f.neg) ELSE f

\* (-1)^neg * man * 2^exp rounded to the format T: to nearest, ties to even, at
\* Precision(T) bits or, below 2^EMin(T), at the subnormal spacing
FRound(T, neg, man, exp) ==
  IF man = NZero THEN FZero
  ELSE LET L == NBitLen(man)
           s0 == L - Precision(T)
           s1 == (EMin(T) - Precision(T) + 1) - exp
           sh == IF s0 > s1 THEN s0 ELSE s1
       IN  IF sh <= 0 THEN FOverflow(T, FNorm(neg, man, exp))
           ELSE IF sh > L THEN FZero
           ELSE LET q == NShr(man, sh)
                    c == NCmp(NMod2(man, sh), NPow2(sh - 1))
                    up == c > 0 \/ (c = 0 /\ NIsOdd(q))
                IN  FOverflow(T, FNorm(neg, IF up THEN NAdd(q, NOne) ELSE q,
                                       exp + sh))

\* the order of the magnitudes |a| and |b|: -1, 0 or 1
FMagCmp(a, b) ==
  IF a.inf \/ b.inf THEN (IF a.inf /\ b.inf THEN 0 ELSE IF a.inf THEN 1 ELSE -1)
  ELSE IF a.man = NZero \/ b.man = NZero
  THEN (IF a.man = b.man THEN 0 ELSE IF a.man = NZero THEN -1 ELSE 1)
  ELSE LET ta == NBitLen(a.man) + a.exp
           tb == NBitLen(b.man) + b.exp
           e == IF a.exp < b.exp THEN a.exp ELSE b.exp
       IN  IF ta < tb THEN -1
           ELSE IF ta > tb THEN 1
           ELSE NCmp(NShl(a.man, a.exp - e), NShl(b.man, b.exp - e))

\* the order of a and b: -1, 0 or 1
FCmp(a, b) ==
  IF FSign(a) # FSign(b) THEN (IF FSign(a) < FSign(b) THEN -1 ELSE 1)
  ELSE IF FSign(a) >= 0 THEN FMagCmp(a, b)
  ELSE FMagCmp(b, a)

\* a * b in the format T
FMul_body(T, a, b) ==
  IF FIsZero(a) \/ FIsZero(b) THEN FZero
  ELSE IF a.inf \/ b.inf THEN FInf(a.neg # b.neg)
  ELSE FRound(T, a.neg # b.neg, NMul(a.man, b.man), a.exp + b.exp)

\* a + b in the format T
FAdd_body(T, a, b) ==
  IF a.inf THEN a
  ELSE IF b.inf THEN b
  ELSE LET e == IF a.exp < b.exp THEN a.exp ELSE b.exp
           sum == IAdd(IMake(a.neg, NShl(a.man, a.exp - e)),
                       IMake(b.neg, NShl(b.man, b.exp - e)))
       IN  FRound(T, sum.neg, sum.mag, e)

\* a / b in the format T, for finite a and finite b # 0: the quotient to two bits
\* more than the format holds, with a last bit that says the division left a
\* remainder
FDiv_body(T, a, b) ==
  IF FIsZero(a) THEN FZero
  ELSE LET k == Precision(T) + 2 + NBitLen(b.man)
           qr == NDivMod(NShl(a.man, k), b.man)
           sticky == IF qr[2] = NZero THEN NZero ELSE NOne
       IN  FRound(T, a.neg # b.neg, NAdd(NShl(qr[1], 1), sticky),
                  a.exp - b.exp - k - 1)

\* the integer i converted to the floating-point type T
IntToFP(T, i) == FRound(T, i.neg, i.mag, 0)

\* a floating-point value converted to the floating-point type T
FPToFP(T, f) == IF f.inf THEN f ELSE FRound(T, f.neg, f.man, f.exp)

\* the integer part of |f| and how the fraction left compares with one half
\* (-2: no fraction, -1: below, 0: exactly one half, 1: above), of a finite f
FSplit(f) ==
  IF f.exp >= 0 THEN [int |-> NShl(f.man, f.exp), frac |-> -2]
  ELSE IF NBitLen(f.man) + f.exp < 0 THEN [int |-> NZero, frac |-> -1]
  ELSE [int |-> NShr(f.man, -f.exp),
        frac |-> NCmp(NMod2(f.man, -f.exp), NPow2(-f.exp - 1))]

\* finite f truncated toward zero
FTrunc(f) == IMake(f.neg, FSplit(f).int)

\* finite f rounded to the nearest integer, halfway cases away from zero
FRoundHalfAway(f) ==
  LET p == FSplit(f)
  IN  IMake(f.neg, IF p.frac >= 0 THEN NAdd(p.int, NOne) ELSE p.int)

\* finite f rounded to the nearest integer, halfway cases to the even one
FRoundHalfEven(f) ==
  LET p == FSplit(f)
  IN  IMake(f.neg, IF p.frac > 0 \/ (p.frac = 0 /\ NIsOdd(p.int))
                   THEN NAdd(p.int, NOne) ELSE p.int)

\* finite f rounded down
FFloor(f) ==
  LET p == FSplit(f)
  IN  IMake(f.neg, IF f.neg /\ p.frac # -2 THEN NAdd(p.int, NOne) ELSE p.int)

(***************************************************************************)
(* Values.  A value of an integer type or of bool is an integer, a value   *)
(* of a floating-point type a floating-point number.  Undefined stands for *)
(* the result of a conversion the language leaves undefined (a             *)
(* floating-point value whose integer part the destination cannot hold);   *)
(* it is no number of the model: a zero is never negative.                 *)
(***************************************************************************)
Undefined == [neg |-> TRUE, mag |-> NZero]

FOne == [inf |-> FALSE, neg |-> FALSE, man |-> NOne, exp |-> 0]
FHalf == [inf |-> FALSE, neg |-> FALSE, man |-> NOne, exp |-> -1]
FTwo == [inf |-> FALSE, neg |-> FALSE, man |-> NOne, exp |-> 1]
FMinusOne == [inf |-> FALSE, neg |-> TRUE, man |-> NOne, exp |-> 0]

(***************************************************************************)
(* const_limits / DEFINE_TYPE_RANGE: min_value<T>() and max_value<T>().    *)
(* An unsigned type of w bits ranges over 0 .. 2^w - 1, a signed one over  *)
(* -2^(w-1) .. 2^(w-1) - 1.  The literals 0x80000000 and                   *)
(* 0x8000000000000000L of the two widest minima do not fit int and long:   *)
(* they are unsigned, their negation wraps to the same bits, and converted *)
(* to the signed type of that width the result is -2^(w-1) all the same.   *)
(* The floating-point limits are +-(2^p - 1) * 2^(EMax - p + 1).           *)
(***************************************************************************)
max_value(T) ==
  IF T = "bool" THEN IMake(FALSE, NOne)
  ELSE IF T \in UnsignedIntTypes THEN IMake(FALSE, NOnes(Bits(T)))
  ELSE IF T \in SignedIntTypes THEN IMake(FALSE, NOnes(Bits(T) - 1))
  ELSE [inf |-> FALSE, neg |-> FALSE, man |-> NOnes(Precision(T)),
        exp |-> EMax(T) - Precision(T) + 1]

min_value(T) ==
  IF T = "bool" \/ T \in UnsignedIntTypes THEN IMake(FALSE, NZero)
  ELSE IF T \in SignedIntTypes THEN IMake(TRUE, NPow2(Bits(T) - 1))
  ELSE [inf |-> FALSE, neg |-> TRUE, man |-> NOnes(Precision(T)),
        exp |-> EMax(T) - Precision(T) + 1]

\* whether the integer i is a value of the integer type T
InRange(T, i) == ILe(min_value(T), i) /\ ILe(i, max_value(T))

(***************************************************************************)
(* static_cast<T>(v) for v of type U.                                      *)
(***************************************************************************)
\* floating-point to integer: the fraction is dropped; undefined when the
\* integer part is no value of T.  To bool: whether the value is not zero.
FPToInt(T, f) ==
  IF T = "bool" THEN (IF FIsZero(f) THEN I(0) ELSE I(1))
  ELSE IF f.inf THEN Undefined
  ELSE IF InRange(T, FTrunc(f)) THEN FTrunc(f)
  ELSE Undefined

static_cast_body(T, U, v) ==
  IF is_floating_point(U)
  THEN (IF is_floating_point(T) THEN FPToFP(T, v) ELSE FPToInt(T, v))
  ELSE (IF is_floating_point(T) THEN IntToFP(T, v) ELSE CastInt(T, v))

\* the order of a (of type A) and b (of type B) as the built-in comparison
\* operators see it: after the usual arithmetic conversions
Compare_body(A, a, B, b) ==
  LET C == CommonType(A, B)
  IN  IF is_floating_point(C)
      THEN FCmp(static_cast(C, A, a), static_cast(C, B, b))
      ELSE ICmp(static_cast(C, A, a), static_cast(C, B, b))

(***************************************************************************)
(* needs_clamp<From, To>::value                                            *)
(***************************************************************************)
needs_clamp(From, To) ==
  IF From = "bool" THEN FALSE
  ELSE LET from_fp == is_floating_point(From)
           to_fp == is_floating_point(To)
           from_unsigned == is_unsigned(From)
           to_unsigned == is_unsigned(To)
       IN  \/ (from_fp = to_fp /\ sizeof(To) < sizeof(From))
           \/ (from_fp /\ ~to_fp)
           \/ (~from_unsigned /\ to_unsigned)
           \/ (from_unsigned /\ ~to_unsigned /\ sizeof(To) <= sizeof(From))

(***************************************************************************)
(* The overloads of clamp(U value, ret_type<T>).                           *)
(***************************************************************************)
\* signed to signed, and floating-point to unsigned: both bounds, compared in U
ClampBothBounds(T, U, value) ==
  IF Compare(U, value, U, static_cast(U, T, min_value(T))) <= 0 THEN min_value(T)
  ELSE IF Compare(U, value, U, static_cast(U, T, max_value(T))) >= 0
  THEN max_value(T)
  ELSE static_cast(T, U, value)

\* signed integer to unsigned without the test against zero: a negative value
\* is compared, and converted, as the unsigned value it wraps to
ClampSignedToUnsignedUpperOnly(T, U, value) ==
  IF Compare(make_unsigned_t(U),
             static_cast(make_unsigned_t(U), U, value),
             T, max_value(T)) >= 0
  THEN max_value(T)
  ELSE static_cast(T, U, value)

\* signed integer to unsigned: zero first, then the upper bound as unsigned
ClampSignedToUnsigned(T, U, value) ==
  IF Compare(U, value, "int32_t", I(0)) <= 0 THEN static_cast(T, "int32_t", I(0))
  ELSE IF Compare(make_unsigned_t(U),
                  static_cast(make_unsigned_t(U), U, value),
                  T, max_value(T)) >= 0
  THEN max_value(T)
  ELSE static_cast(T, U, value)

\* a + b computed in the type S
Plus(S, a, b) ==
  IF is_floating_point(S) THEN FAdd(S, a, b) ELSE CastInt(S, IAdd(a, b))

\* unsigned source: the upper bound alone, max_value<T>() + U(0)
ClampUnsigned(T, U, value) ==
  LET S == CommonType(T, U)
      bound == Plus(S, static_cast(S, T, max_value(T)), static_cast(S, U, I(0)))
  IN  IF Compare(U, value, S, bound) >= 0 THEN max_value(T)
      ELSE static_cast(T, U, value)

\* no clamping needed: return value
ClampNone(T, U, value) == static_cast(T, U, value)

\* bool: static_cast<bool>(value)
ClampBool(U, value) == static_cast("bool", U, value)

\* the generic templates, chosen by their enable_if conditions
ClampGeneric(T, U, value) ==
  IF ~needs_clamp(U, T) THEN ClampNone(T, U, value)
  ELSE IF is_signed(U) /\ is_signed(T) THEN ClampBothBounds(T, U, value)
  ELSE IF is_signed(U) /\ is_floating_point(U) /\ is_unsigned(T)
  THEN ClampBothBounds(T, U, value)
  ELSE IF is_signed(U) /\ is_integral(U) /\ is_unsigned(T)
  THEN ClampSignedToUnsigned(T, U, value)
  ELSE ClampUnsigned(T, U, value)

\* uint32_t to int32_t by the conversion alone, bit 31 not looked at
ClampU32ToI32CastOnly(value) == CastInt("int32_t", CastInt("uint32_t", value))

\* value & 0x80000000u ? 0x7fffffff : value
ClampU32ToI32(value) ==
  IF NIsOdd(NShr(value.mag, 31))
  THEN CastInt("int32_t", CastInt("uint32_t", ISub(IPow2(31), I(1))))
  ELSE CastInt("int32_t", CastInt("uint32_t", value))

\* value < 0 ? 0u : value
ClampI32ToU32(value) ==
  IF Compare("int32_t", value, "int32_t", I(0)) < 0 THEN I(0)
  ELSE CastInt("uint32_t", value)

ClampI64ToI32(value) ==
  IF Compare("int64_t", value, "int64_t",
             CastInt("int64_t", min_value("int32_t"))) < 0
  THEN min_value("int32_t")
  ELSE IF Compare("int64_t", value, "int64_t",
                  CastInt("int64_t", max_value("int32_t"))) > 0
  THEN max_value("int32_t")
  ELSE CastInt("int32_t", value)

ClampU64ToI32(value) ==
  IF Compare("uint64_t", value, "uint64_t",
             CastInt("uint64_t", max_value("int32_t"))) > 0
  THEN max_value("int32_t")
  ELSE CastInt("int32_t", value)

ClampI64ToU32(value) ==
  IF Compare("int64_t", value, "int32_t", I(0)) < 0
  THEN CastInt("uint32_t", I(0))
  ELSE IF Compare("int64_t", value, "int64_t",
                  CastInt("int64_t", max_value("uint32_t"))) > 0
  THEN max_value("uint32_t")
  ELSE CastInt("uint32_t", value)

ClampU64ToU32(value) ==
  IF Compare("uint64_t", value, "uint64_t",
             CastInt("uint64_t", max_value("uint32_t"))) > 0
  THEN max_value("uint32_t")
  ELSE CastInt("uint32_t", value)

\* the pairs <<To, From>> that have a dedicated overload or specialization
FastPathPairs ==
  { <<"int32_t", "uint32_t">>, <<"uint32_t", "int32_t">>,
    <<"int32_t", "int64_t">>, <<"int32_t", "uint64_t">>,
    <<"uint32_t", "int64_t">>, <<"uint32_t", "uint64_t">> }

ClampFastPath(T, U, value) ==
  CASE <<T, U>> = <<"int32_t", "uint32_t">> -> ClampU32ToI32(value)
    [] <<T, U>> = <<"uint32_t", "int32_t">> -> ClampI32ToU32(value)
    [] <<T, U>> = <<"int32_t", "int64_t">> -> ClampI64ToI32(value)
    [] <<T, U>> = <<"int32_t", "uint64_t">> -> ClampU64ToI32(value)
    [] <<T, U>> = <<"uint32_t", "int64_t">> -> ClampI64ToU32(value)
    [] <<T, U>> = <<"uint32_t", "uint64_t">> -> ClampU64ToU32(value)

\* clamp<T>(value), value of type U: overload resolution takes a dedicated
\* overload first, then the bool overload (the more specialized template), then
\* the generic template whose condition holds
clamp_body(T, U, value) ==
  IF <<T, U>> \in FastPathPairs THEN ClampFastPath(T, U, value)
  ELSE IF T = "bool" THEN ClampBool(U, value)
  ELSE ClampGeneric(T, U, value)

(***************************************************************************)
(* Rounding primitives.                                                    *)
(***************************************************************************)
\* std::round on a value of the floating-point type T: to the nearest integer,
\* halfway cases away from zero; the result has the type of the argument
std_round_body(T, f) ==
  IF f.inf THEN f
  ELSE LET r == FRoundHalfAway(f) IN FRound(T, r.neg, r.mag, 0)

\* the integer i brought into the range of the integer type R, as the
\* conversion instructions of the accelerator do
Saturate(R, i) ==
  IF ILt(i, min_value(R)) THEN min_value(R)
  ELSE IF ILt(max_value(R), i) THEN max_value(R)
  ELSE i

\* __float2int_rn, __float2uint_rn, __double2int_rn, __double2uint_rn: to the
\* nearest integer, halfway cases to even, saturating
ToIntRn(R, f) ==
  IF f.inf THEN (IF f.neg THEN min_value(R) ELSE max_value(R))
  ELSE Saturate(R, FRoundHalfEven(f))

\* __float2ll_rd, __float2ull_rd, __double2ll_rd, __double2ull_rd: rounded
\* down, saturating
ToIntRd(R, f) ==
  IF f.inf THEN (IF f.neg THEN min_value(R) ELSE max_value(R))
  ELSE Saturate(R, FFloor(f))

\* the return type of the overload of cuda_round_helper that the second
\* argument Out() selects: a type narrower than int is promoted to int;
\* int64_t is long and uint64_t unsigned long
cuda_round_helper_type(Out) ==
  CASE Out = "uint32_t" -> "uint32_t"
    [] Out = "int64_t" -> "int64_t"
    [] Out = "uint64_t" -> "uint64_t"
    [] OTHER -> "int32_t"

\* detail::cuda_round_helper(f, Out()), f of the floating-point type T; long is
\* wider than int, so the 64 bit overloads round f + 0.5f down
cuda_round_helper_body(T, f, Out) ==
  LET R == cuda_round_helper_type(Out)
  IN  IF sizeof(R) = 4 THEN ToIntRn(R, f)
      ELSE ToIntRd(R, FAdd(T, f, FPToFP(T, FHalf)))

\* __saturatef(x): x brought into [0, 1]
saturatef_body(f) ==
  IF FCmp(f, FZero) <= 0 THEN FZero
  ELSE IF FCmp(f, FOne) >= 0 THEN FOne
  ELSE f

Targets == {"host", "device"}

(***************************************************************************)
(* detail::Converter<Out, In> and what it derives from.  Each operator     *)
(* gives the value the member function returns, or Undefined.  target says *)
(* whether __CUDA_ARCH__ is defined.                                       *)
(***************************************************************************)
\* ConverterBase<Out, In, true, true>: between two floating-point types
FPToFPConvert(Out, In, value) == static_cast(Out, In, value)

\* integral to floating-point normalized by max_value<In>() + 1 in place of
\* max_value<In>()
IntToFPNormByMaxPlusOne(Out, In, value) ==
  FMul(Out, static_cast(Out, In, value),
       FDiv(Out, FPToFP(Out, FOne), IntToFP(Out, IAdd(max_value(In), I(1)))))

\* integral to floating-point scaled by 1 / 2^Bits(In) in place of the plain
\* conversion
IntToFPScaledByPow2(Out, In, value) ==
  FMul(Out, static_cast(Out, In, value),
       FDiv(Out, FPToFP(Out, FOne), IntToFP(Out, IPow2(Bits(In)))))

\* ConverterBase<Out, In, true, false>: integral to floating-point
IntToFPConvert(Out, In, value) == static_cast(Out, In, value)

\* value * (Out(1) / (max_value<In>()))
IntToFPConvertNorm(Out, In, value) ==
  FMul(Out, static_cast(Out, In, value),
       FDiv(Out, FPToFP(Out, FOne), static_cast(Out, In, max_value(In))))

\* ConverterBase<Out, In, false, true>: floating-point to integral
FPToIntConvert(target, Out, In, value) ==
  IF target = "device"
  THEN clamp(Out, cuda_round_helper_type(Out), cuda_round_helper(In, value, Out))
  ELSE clamp(Out, In, std_round(In, value))

\* value * max_value<Out>(), computed in In
ScaledByMax(Out, In, value) == FMul(In, value, static_cast(In, Out, max_value(Out)))

FPToIntConvertNorm(target, Out, In, value) ==
  IF target = "device"
  THEN static_cast(Out, cuda_round_helper_type(Out),
                   cuda_round_helper(In, ScaledByMax(Out, In, value), Out))
  ELSE static_cast(Out, In, std_round(In, ScaledByMax(Out, In, value)))

\* the accelerator's path to an unsigned Out:
\* cuda_round_helper(max_value<Out>() * __saturatef(value), Out()), before the
\* return statement converts it to Out
SatNormDeviceUnsigned(Out, In, value) ==
  cuda_round_helper("float",
    FMul("float", static_cast("float", Out, max_value(Out)),
         saturatef(static_cast("float", In, value))),
    Out)

\* the saturating conversion replaced by the one that narrows without clamp
FPToIntNarrowUnclamped(target, Out, In, value) ==
  FPToIntConvertNorm(target, Out, In, value)

FPToIntConvertSatNorm(target, Out, In, value) ==
  LET R == cuda_round_helper_type(Out)
  IN  IF target = "device"
      THEN IF is_signed(Out)
           THEN clamp(Out, R, cuda_round_helper(In, ScaledByMax(Out, In, value), Out))
           ELSE static_cast(Out, R, SatNormDeviceUnsigned(Out, In, value))
      ELSE clamp(Out, In, std_round(In, ScaledByMax(Out, In, value)))

\* ConvertIntInt<Out, In>: signed to signed, unsigned to unsigned.
\* value * (1.0f * max_value<Out>() / max_value<In>()), then
\* Converter<Out, float>::Convert
SameSignConvertNorm(target, Out, In, value) ==
  LET factor == FDiv("float",
                     FMul("float", FOne, static_cast("float", Out, max_value(Out))),
                     static_cast("float", In, max_value(In)))
  IN  FPToIntConvert(target, Out, "float",
                     FMul("float", static_cast("float", In, value), factor))

\* ConvertIntInt<Out, In, false, true>: signed to unsigned.
\* 0.5f * (1.0f + Converter<float, In>::ConvertNorm(value))
SignedToUnsignedNormF(In, value) ==
  FMul("float", FHalf, FAdd("float", FOne, IntToFPConvertNorm("float", In, value)))

\* ConvertIntInt<Out, In, true, false>: unsigned to signed.
\* -1.0f + 2.0f * Converter<float, In>::ConvertNorm(value)
UnsignedToSignedNormF(In, value) ==
  FAdd("float", FMinusOne, FMul("float", FTwo, IntToFPConvertNorm("float", In, value)))

\* the float the mixed-signedness conversions hand to Converter<Out, float>
MixedSignNormF(Out, In, value) ==
  IF is_signed(In) THEN SignedToUnsignedNormF(In, value)
  ELSE UnsignedToSignedNormF(In, value)

\* identical types served by a detour through float instead of the
\* pass-through: an integer is converted to float, rounded and clamped back
PassThroughViaFloat(T, value) ==
  IF is_floating_point(T) THEN value
  ELSE clamp(T, "float", std_round("float", IntToFP("float", value)))

\* Converter<T, T>: pass-through conversion, the same in all four modes
PassThrough(T, value) == value

\* Convert<Out>(value), value of type In
Convert_body(target, Out, In, value) ==
  IF Out = In THEN PassThrough(Out, value)
  ELSE IF is_floating_point(Out)
  THEN (IF is_floating_point(In) THEN FPToFPConvert(Out, In, value)
        ELSE IntToFPConvert(Out, In, value))
  ELSE IF is_floating_point(In) THEN FPToIntConvert(target, Out, In, value)
  ELSE static_cast(Out, In, value)

\* ConvertSat<Out>(value), value of type In
ConvertSat_body(target, Out, In, value) ==
  IF Out = In THEN PassThrough(Out, value)
  ELSE IF is_floating_point(Out)
  THEN (IF is_floating_point(In) THEN FPToFPConvert(Out, In, value)
        ELSE IntToFPConvert(Out, In, value))
  ELSE IF is_floating_point(In) THEN FPToIntConvert(target, Out, In, value)
  ELSE clamp(Out, In, value)

\* ConvertNorm<Out>(value), value of type In
ConvertNorm_body(target, Out, In, value) ==
  IF Out = In THEN PassThrough(Out, value)
  ELSE IF is_floating_point(Out)
  THEN (IF is_floating_point(In) THEN FPToFPConvert(Out, In, value)
        ELSE IntToFPConvertNorm(Out, In, value))
  ELSE IF is_floating_point(In) THEN FPToIntConvertNorm(target, Out, In, value)
  ELSE IF is_signed(Out) = is_signed(In)
  THEN SameSignConvertNorm(target, Out, In, value)
  ELSE FPToIntConvertNorm(target, Out, "float", MixedSignNormF(Out, In, value))

\* ConvertSatNorm<Out>(value), value of type In
ConvertSatNorm_body(target, Out, In, value) ==
  IF Out = In THEN PassThrough(Out, value)
  ELSE IF is_floating_point(Out)
  THEN (IF is_floating_point(In) THEN FPToFPConvert(Out, In, value)
        ELSE IntToFPConvertNorm(Out, In, value))
  ELSE IF is_floating_point(In) THEN FPToIntConvertSatNorm(target, Out, In, value)
  ELSE IF is_signed(Out) = is_signed(In)
  THEN SameSignConvertNorm(target, Out, In, value)
  ELSE FPToIntConvertSatNorm(target, Out, "float", MixedSignNormF(Out, In, value))

(***************************************************************************)
(* The inputs the calls are made with.                                     *)
(***************************************************************************)
(* Call(f, args): the operation or function named f applied to args.       *)
(***************************************************************************)
Call(f, a) ==
  CASE f = "static_cast" -> static_cast_body(a[1], a[2], a[3])
    [] f = "Compare" -> Compare_body(a[1], a[2], a[3], a[4])
    [] f = "FMul" -> FMul_body(a[1], a[2], a[3])
    [] f = "FAdd" -> FAdd_body(a[1], a[2], a[3])
    [] f = "FDiv" -> FDiv_body(a[1], a[2], a[3])
    [] f = "clamp" -> clamp_body(a[1], a[2], a[3])
    [] f = "std_round" -> std_round_body(a[1], a[2])
    [] f = "cuda_round_helper" -> cuda_round_helper_body(a[1], a[2], a[3])
    [] f = "saturatef" -> saturatef_body(a[1])
    [] f = "Convert" -> Convert_body(a[1], a[2], a[3], a[4])
    [] f = "ConvertSat" -> ConvertSat_body(a[1], a[2], a[3], a[4])
    [] f = "ConvertNorm" -> ConvertNorm_body(a[1], a[2], a[3], a[4])
    [] f = "ConvertSatNorm" -> ConvertSatNorm_body(a[1], a[2], a[3], a[4])

(***************************************************************************)
\* integers within Delta of each power of two where a type's range ends
\* (and of 2^24, where float stops holding every integer), and within
\* SmallMax of zero
Delta == 1
SmallMax == 2
BoundaryBits == {7, 8, 15, 16, 24, 31, 32, 63, 64}

IntCandidates ==
  {I(d) : d \in -SmallMax .. SmallMax}
    \cup {IAdd(IPow2(k), I(d)) : k \in BoundaryBits, d \in -Delta .. Delta}
    \cup {IAdd(INeg(IPow2(k)), I(d)) : k \in BoundaryBits, d \in -Delta .. Delta}

IntSamples(T) == {v \in IntCandidates : InRange(T, v)}

\* (-1)^neg * m * 2^e as a value of the floating-point type T, m a small number
FVal(T, neg, m, e) == FRound(T, neg, NFromInt(m), e)

\* binary exponents of the floating-point inputs, from below the rounding ties
\* of the 32 bit destinations to above the range of the 64 bit ones
FloatExps == {-33, -3, -2, -1, 0, 1, 7, 31, 63, 70}
FloatMantissas == {1, 3, 5}

\* 0x1.010102p-9f and 0x1.414142p-7f: floats whose product with 255 rounds
\* to 0.5 and to 2.5; 0.502 is the double 0x1.010624dd2f1aap-1; 100.2 and
\* the largest finite values close the list
FPSpecials(T) ==
  { FZero, max_value(T), min_value(T),
    FVal(T, FALSE, 8421505, -32), FVal(T, FALSE, 10526881, -30),
    FVal(T, FALSE, 8388609, -23), FVal(T, TRUE, 8388609, -23),
    FVal(T, FALSE, 1002, -3) } \cup
  (IF T = "double"
   THEN {FNorm(FALSE, NAdd(NShl(NFromInt(4211300), 30), NFromInt(627511125)), -53)}
   ELSE {})

FPSamples(T) ==
  {FVal(T, neg, m, e) : neg \in BOOLEAN, m \in FloatMantissas, e \in FloatExps}
    \cup FPSpecials(T)

Samples(T) ==
  IF T = "bool" THEN {I(0), I(1)}
  ELSE IF is_floating_point(T) THEN FPSamples(T)
  ELSE IntSamples(T)

\* what a build may return where the language leaves the conversion undefined
UndefinedOutcomes(T) == {min_value(T), max_value(T), I(0)}

Outcomes(T, r) == IF r = Undefined THEN UndefinedOutcomes(T) ELSE {r}

(***************************************************************************)
(* The state: one call on one input, and one more call made with its       *)
(* result or, for comparison, with the same input on the other target.     *)
(***************************************************************************)
VARIABLES
  target,      \* the build the first call runs in
  inType,      \* the type In of the input
  inValue,     \* the input
  pc,          \* "start", "called" (one call made), "done" (two)
  op,          \* what was called
  outType,     \* the destination type Out of the first call
  outValue,    \* what the first call returned
  undefined,   \* whether the first call's result was left undefined
  second,      \* the second call: "back", "again", "other" or "none"
  outValue2,   \* what the second call returned
  undefined2   \* whether the second call's result was left undefined

vars == <<target, inType, inValue, pc, op, outType, outValue, undefined,
          second, outValue2, undefined2>>

NoValue == I(0)

Init ==
  /\ target \in Targets
  /\ inType \in ArithmeticTypes
  /\ inValue \in Samples(inType)
  /\ pc = "start"
  /\ op = "none"
  /\ outType = inType
  /\ outValue = NoValue
  /\ undefined = FALSE
  /\ second = "none"
  /\ outValue2 = NoValue
  /\ undefined2 = FALSE

\* the first call, op<Out>(inValue), returned r
First(o, Out, r) ==
  /\ pc = "start"
  /\ outValue' \in Outcomes(Out, r)
  /\ undefined' = (r = Undefined)
  /\ op' = o
  /\ outType' = Out
  /\ pc' = "called"
  /\ UNCHANGED <<target, inType, inValue, second, outValue2, undefined2>>

CallClamp(Out) == First("clamp", Out, clamp(Out, inType, inValue))
CallConvert(Out) == First("Convert", Out, Convert(target, Out, inType, inValue))
CallConvertSat(Out) ==
  First("ConvertSat", Out, ConvertSat(target, Out, inType, inValue))
CallConvertNorm(Out) ==
  First("ConvertNorm", Out, ConvertNorm(target, Out, inType, inValue))
CallConvertSatNorm(Out) ==
  First("ConvertSatNorm", Out, ConvertSatNorm(target, Out, inType, inValue))

\* the second call, to the type Out, returned r; which says what it was made
\* with
Second(which, Out, r) ==
  /\ pc = "called"
  /\ outValue2' \in Outcomes(Out, r)
  /\ undefined2' = (r = Undefined)
  /\ second' = which
  /\ pc' = "done"
  /\ UNCHANGED <<target, inType, inValue, op, outType, outValue, undefined>>

\* the round trip: Convert<In>(Convert<Out>(v))
CallBack ==
  /\ op = "Convert"
  /\ Second("back", inType, Convert(target, inType, outType, outValue))

\* the saturating conversion applied to its own result:
\* ConvertSat<Out>(ConvertSat<Out>(v))
CallAgain ==
  /\ op = "ConvertSat"
  /\ Second("again", outType, ConvertSat(target, outType, outType, outValue))

OtherTarget(t) == IF t = "host" THEN "device" ELSE "host"

\* the same ConvertSatNorm<Out>(v) in the build for the other target
CallOther ==
  /\ op = "ConvertSatNorm"
  /\ Second("other", outType,
            ConvertSatNorm(OtherTarget(target), outType, inType, inValue))

Next ==
  \/ \E Out \in ArithmeticTypes : CallClamp(Out)
  \/ \E Out \in ArithmeticTypes : CallConvert(Out)
  \/ \E Out \in ArithmeticTypes : CallConvertSat(Out)
  \/ \E Out \in ArithmeticTypes : CallConvertNorm(Out)
  \/ \E Out \in ArithmeticTypes : CallConvertSatNorm(Out)
  \/ CallBack
  \/ CallAgain
  \/ CallOther

Spec == Init /\ [][Next]_vars

(***************************************************************************)
(* What the claims are stated with.                                        *)
(***************************************************************************)
\* the integer of the range of the integer type T nearest to the integer v
MathSaturation(T, v) ==
  IF ILt(v, INeg(IPow2(Bits(T) - 1))) /\ T \in SignedIntTypes
  THEN INeg(IPow2(Bits(T) - 1))
  ELSE IF v.neg /\ T \in UnsignedIntTypes THEN I(0)
  ELSE IF T \in SignedIntTypes /\ ~ILt(v, IPow2(Bits(T) - 1))
  THEN ISub(IPow2(Bits(T) - 1), I(1))
  ELSE IF T \in UnsignedIntTypes /\ ~ILt(v, IPow2(Bits(T)))
  THEN ISub(IPow2(Bits(T)), I(1))
  ELSE v

Called == pc # "start"

(***************************************************************************)
(* C1: for every pair of integer types (From, To), bool aside, and every   *)
(* value v of From, clamp<To>(v) and ConvertSat<To>(v) return v brought    *)
(* into the range of To: v itself when it lies in the range, the minimum   *)
(* of To (0 for an unsigned To) when it lies below, the maximum when it    *)
(* lies above; also for the pairs that need no clamping.                   *)
(***************************************************************************)
C1_ClampSaturates ==
  (Called /\ op \in {"clamp", "ConvertSat"} /\ inType \in IntTypes
     /\ outType \in IntTypes)
    => /\ ~undefined
       /\ outValue = MathSaturation(outType, inValue)
       /\ ILe(min_value(outType), outValue) /\ ILe(outValue, max_value(outType))
       /\ (InRange(outType, inValue) => outValue = inValue)

\* clamp<uint8_t>(int32_t min) was called and gave 0
C1_Witness_ClampedBelow ==
  /\ pc = "called" /\ op = "clamp"
  /\ inType = "int32_t" /\ outType = "uint8_t"
  /\ inValue = INeg(IPow2(31)) /\ outValue = I(0)

(***************************************************************************)
(* C9: each dedicated clamp overload (uint32 to int32, int32 to uint32,    *)
(* int64 to int32, uint64 to int32, int64 to uint32, uint64 to uint32)     *)
(* returns what the generic template for that pair of signednesses would   *)
(* return; clamp<int32>(uint32 max) is int32 max and clamp<uint32>(int32   *)
(* min) is 0.                                                              *)
(***************************************************************************)
C9_FastPathsMatchGeneric ==
  (Called /\ op = "clamp" /\ <<outType, inType>> \in FastPathPairs)
    => /\ outValue = ClampGeneric(outType, inType, inValue)
       /\ (inType = "uint32_t" /\ inValue = max_value("uint32_t")
             => outValue = max_value("int32_t"))
       /\ (inType = "int32_t" /\ inValue = min_value("int32_t")
             => outValue = I(0))

\* clamp<int32_t>(0xffffffffu) was called and gave 0x7fffffff
C9_Witness_U32MaxToI32 ==
  /\ pc = "called" /\ op = "clamp"
  /\ inType = "uint32_t" /\ outType = "int32_t"
  /\ inValue = ISub(IPow2(32), I(1))
  /\ outValue = ISub(IPow2(31), I(1))

(***************************************************************************)
(* C2: ConvertSatNorm from a signed integer type to an unsigned integer    *)
(* type returns 0 for every negative input; ConvertSatNorm<uint8_t,        *)
(* int8_t>(-1) is 0.                                                       *)
(***************************************************************************)
C2_NegativeToZero ==
  (Called /\ op = "ConvertSatNorm" /\ inType \in SignedIntTypes
     /\ outType \in UnsignedIntTypes /\ inValue.neg)
    => outValue = I(0)

(***************************************************************************)
(* C3: for every integer destination To, every integer source type and     *)
(* value, and every finite floating-point input, ConvertSatNorm<To>        *)
(* returns a value of the range of To that is obtained by clamping: no     *)
(* conversion is left undefined, an input whose scaled value lies at or    *)
(* beyond an end of the range gives that end, and the one path that        *)
(* narrows to To without clamp<To> (the accelerator's, to an unsigned To)  *)
(* narrows a value that lies in the range of To.                           *)
(***************************************************************************)
\* the floating-point value, and its type, that ConvertSatNorm hands to the
\* floating-point to integral converter: the input itself, or the float an
\* integer of the other signedness is normalized to
SatNormFPType == IF is_floating_point(inType) THEN inType ELSE "float"
SatNormFPArg ==
  IF is_floating_point(inType) THEN inValue
  ELSE MixedSignNormF(outType, inType, inValue)

\* the integer i as an exact floating-point number
Exact(i) == FNorm(i.neg, i.mag, 0)

IsZeroValue(T, v) == IF is_floating_point(T) THEN FIsZero(v) ELSE v.mag = NZero

C4_BoolIsTruthiness ==
  (Called /\ op = "Convert" /\ outType = "bool")
    => outValue = (IF IsZeroValue(inType, inValue) THEN I(0) ELSE I(1))

(***************************************************************************)
(* C5: ConvertNorm from a floating-point value to an integer type Out      *)
(* returns value * max_value<Out>() rounded to the nearest integer, and    *)
(* ConvertNorm<uint8_t>(0.5f) is 127, ConvertNorm<uint8_t>(0.502) is 128   *)
(* and ConvertNorm<int8_t>(-1.0f) is -127.                                 *)
(***************************************************************************)
\* whether the integer i lies within one half of the finite number f
WithinHalf(i, f) ==
  IF f.exp >= 0 THEN Exact(i) = f
  ELSE LET d == ISub(IMake(i.neg, NShl(i.mag, -f.exp)), IMake(f.neg, f.man))
       IN  NCmp(NShl(d.mag, 1), NPow2(-f.exp)) <= 0

\* the double 0.502
Double0502 ==
  FNorm(FALSE, NAdd(NShl(NFromInt(4211300), 30), NFromInt(627511125)), -53)

C5_ConvertNormDocumented ==
  (Called /\ op = "ConvertNorm" /\ inType \in FPTypes /\ outType \in IntTypes)
    => /\ (~undefined /\ ~ScaledByMax(outType, inType, inValue).inf
             /\ InRange(outType,
                        FRoundHalfAway(ScaledByMax(outType, inType, inValue))))
            => WithinHalf(outValue, ScaledByMax(outType, inType, inValue))
       /\ (inType = "float" /\ inValue = FHalf /\ outType = "uint8_t")
            => outValue = I(127)
       /\ (inType = "double" /\ inValue = Double0502 /\ outType = "uint8_t")
            => outValue = I(128)
       /\ (inType = "float" /\ inValue = FMinusOne /\ outType = "int8_t")
            => outValue = I(-127)

(***************************************************************************)
(* C6: for integer to floating-point ConvertNorm and ConvertSatNorm, every *)
(* value of an unsigned source type maps into [0, 1] and every value of a  *)
(* signed source type, from min_value<In>() to max_value<In>(), maps into  *)
(* [-1, 1]; max_value<In>() maps to 1.                                     *)
(***************************************************************************)
Between(lo, f, hi) == FCmp(lo, f) <= 0 /\ FCmp(f, hi) <= 0

NormToFP ==
  /\ Called /\ op \in {"ConvertNorm", "ConvertSatNorm"}
  /\ inType \in IntTypes /\ outType \in FPTypes

\* the claim as it was made
C6_NormRange ==
  NormToFP
    => /\ inType \in UnsignedIntTypes => Between(FZero, outValue, FOne)
       /\ inType \in SignedIntTypes => Between(FMinusOne, outValue, FOne)
       /\ inValue = max_value(inType) => outValue = FOne

\* the claim as amended: the signed values from -max_value<In>() up map into
\* [-1, 1]; min_value<In>() maps to -1 or below
C6_NormRangeFromMinusMax ==
  NormToFP
    => /\ inType \in UnsignedIntTypes => Between(FZero, outValue, FOne)
       /\ (inType \in SignedIntTypes /\ ILe(INeg(max_value(inType)), inValue))
            => Between(FMinusOne, outValue, FOne)
       /\ (inType \in SignedIntTypes /\ inValue = min_value(inType))
            => FCmp(outValue, FMinusOne) <= 0
       /\ inValue = max_value(inType) => outValue = FOne
       /\ inValue = INeg(max_value(inType)) => outValue = FMinusOne

\* ConvertNorm<float>(int8_t(-128)) was called and gave a value below -1
C6_Witness_MinBelowMinusOne ==
  /\ pc = "called" /\ op = "ConvertNorm"
  /\ inType = "int8_t" /\ outType = "float"
  /\ inValue = min_value("int8_t")
  /\ FCmp(outValue, FMinusOne) < 0

(***************************************************************************)
(* C7: the round trip through float.  For T one of int8, uint8, int16,     *)
(* uint16 and every value v of T, and for the int32 and uint32 values of   *)
(* at most 24 significant bits, Convert<T>(Convert<float>(v)) is v, at     *)
(* min_value<T>() and max_value<T>() too.                                  *)
(***************************************************************************)
SignificantBits(v) ==
  IF v.mag = NZero THEN 0 ELSE NBitLen(v.mag) - NTrailingZeros(v.mag)

C7_RoundTripThroughFloat ==
  (/\ pc = "done" /\ second = "back" /\ outType = "float"
   /\ \/ inType \in {"int8_t", "uint8_t", "int16_t", "uint16_t"}
      \/ (inType \in {"int32_t", "uint32_t"} /\ SignificantBits(inValue) <= 24))
    => ~undefined /\ ~undefined2 /\ outValue2 = inValue

\* Convert<int16_t>(Convert<float>(int16_t min)) was computed and gave the input
C7_Witness_Int16MinRoundTrip ==
  /\ pc = "done" /\ second = "back" /\ op = "Convert"
  /\ inType = "int16_t" /\ outType = "float"
  /\ inValue = min_value("int16_t")
  /\ outValue = FNorm(TRUE, NOne, 15)
  /\ outValue2 = inValue

(***************************************************************************)
(* C8: ConvertSat is idempotent: ConvertSat<T>(ConvertSat<T>(v)) is        *)
(* ConvertSat<T>(v) for every destination type T and every input of every  *)
(* source type; the second application is the pass-through of identical    *)
(* types.                                                                  *)
(***************************************************************************)
C8_ConvertSatIdempotent ==
  (pc = "done" /\ second = "again")
    => ~undefined /\ ~undefined2 /\ outValue2 = outValue

\* ConvertSat<int64_t> of the uint64_t 2^32 + 1 gave an integer float cannot
\* hold exactly, and the second ConvertSat<int64_t> returned it unchanged
C8_Witness_SaturatedTwice ==
  /\ pc = "done" /\ second = "again" /\ op = "ConvertSat"
  /\ inType = "uint64_t" /\ outType = "int64_t"
  /\ inValue = IAdd(IPow2(32), I(1))
  /\ outValue = inValue /\ outValue2 = inValue

(***************************************************************************)
(* C10: for floating-point to unsigned integer ConvertSatNorm the          *)
(* accelerator's path (saturate to [0, 1], scale, round with the hardware  *)
(* helper) and the general-purpose path (scale, round half away from zero, *)
(* clamp) return the same result for every finite input, those whose       *)
(* scaled value lies halfway between two integers included.                *)
(***************************************************************************)
C10_TargetsAgree ==
  (pc = "done" /\ second = "other" /\ inType \in FPTypes
     /\ outType \in UnsignedIntTypes)
    => outValue2 = outValue
====
